---- MODULE Spec2Model ----
(***************************************************************************)
(* Model of cypress/pages/practice-form.js: the page object of the         *)
(* practice form.  A test body calls the page object's operations, which   *)
(* enqueue Cypress commands; the Cypress runner then executes the queue    *)
(* one command at a time.  validateSubmission classifies the labels of     *)
(* the results table as populated or missing and enqueues one assertion    *)
(* per record.                                                             *)
(*                                                                         *)
(* A JavaScript string is a sequence of tokens (a token is one character   *)
(* or a run of characters without any delimiter in it); a JavaScript       *)
(* value is a record tagged with its type.                                 *)
(***************************************************************************)
EXTENDS Integers, Sequences, FiniteSets, TLC

VARIABLES
    pc,               \* "test": the test body runs; "run": the queue runs;
                      \* "done"; "failed": an assertion failed; "threw"
    stage,            \* how far the test body is: 0, visited 1, filled 2,
                      \* submitted 3, validated 4
    queue,            \* the Cypress commands not yet executed
    log,              \* the interactions and assertions executed, in order
    failure,          \* the assertion that failed, NoCmd when none did
    formValues,       \* the argument of fill
    filled,           \* fill was called
    expectedValues,   \* the argument of validateSubmission
    validated,        \* validateSubmission was called
    populatedFields,  \* validateSubmission's list of {label, expValue}
    missingFields,    \* validateSubmission's list of labels
    helperArgs,       \* the helper called on its own, and its arguments
    today             \* the date at which validateSubmission was called

vars == <<pc, stage, queue, log, failure, formValues, filled,
          expectedValues, validated, populatedFields, missingFields,
          helperArgs, today>>

\* ------------------------------------------------------------ bounds
\* Longest list of subjects or hobbies a test passes.
MaxList == 2

\* ------------------------------------------------------ JavaScript values
NoDate == [y |-> 0, m |-> 0, d |-> 0]

Undef == [t |-> "undefined", s |-> <<>>, l |-> <<>>, date |-> NoDate]

Null == [t |-> "null", s |-> <<>>, l |-> <<>>, date |-> NoDate]

Str(s) == [t |-> "string", s |-> s, l |-> <<>>, date |-> NoDate]

List(l) == [t |-> "array", s |-> <<>>, l |-> l, date |-> NoDate]

DateV(d) == [t |-> "date", s |-> <<>>, l |-> <<>>, date |-> d]

\* if (v): undefined, null and '' are falsy; every array (the empty one too)
\* and every date is truthy.
Truthy(v) ==
    \/ v.t = "string" /\ v.s # <<>>
    \/ v.t = "array"
    \/ v.t = "date"

IsArray(v) == v.t = "array"

\* Array.prototype.join(delimiter) on an array of strings.
RECURSIVE Join(_, _)
Join(l, delim) ==
    IF l = <<>> THEN <<>>
    ELSE IF Len(l) = 1 THEN l[1]
    ELSE l[1] \o delim \o Join(Tail(l), delim)

\* ------------------------------------------------------------ fixtures
Fields == {"firstName", "lastName", "email", "gender", "mobile", "dob",
           "subjects", "hobbies", "picture", "address", "state", "city"}

\* fixtures/practice-form/field-types.json: the text inputs, in order.
fieldTypes == [text |-> <<"firstName", "lastName", "email", "mobile", "address">>]

\* fixtures/practice-form/submission-mapping.json
submissionMapping ==
    [direct |-> << [selector |-> "email",   label |-> "Student Email"],
                   [selector |-> "gender",  label |-> "Gender"],
                   [selector |-> "mobile",  label |-> "Mobile"],
                   [selector |-> "address", label |-> "Address"] >>,
     concat |-> << [selectors |-> <<"firstName", "lastName">>,
                    label |-> "Student Name", delimeter |-> <<" ">>],
                   [selectors |-> <<"subjects">>,
                    label |-> "Subjects", delimeter |-> <<",", " ">>],
                   [selectors |-> <<"state", "city">>,
                    label |-> "State and City", delimeter |-> <<" ">>] >>,
     list |-> << [selector |-> "hobbies", label |-> "Hobbies"] >>,
     picture |-> "Picture",
     dob |-> "Date of Birth"]

Dates == { [y |-> 1990, m |-> 5, d |-> 7], [y |-> 2024, m |-> 12, d |-> 25] }

SubjectNames == {<<"Maths">>, <<"Physics">>}

HobbyNames == {<<"Sports">>, <<"Reading">>}

\* fixtures/practice-form/default-values.json: every field given.
defaultValues ==
    [f \in Fields |->
        CASE f = "firstName" -> Str(<<"John">>)
          [] f = "lastName"  -> Str(<<"Smith">>)
          [] f = "email"     -> Str(<<"john@example.com">>)
          [] f = "gender"    -> Str(<<"Male">>)
          [] f = "mobile"    -> Str(<<"0123456789">>)
          [] f = "dob"       -> DateV([y |-> 1990, m |-> 5, d |-> 7])
          [] f = "subjects"  -> List(<< <<"Maths">> >>)
          [] f = "hobbies"   -> List(<< <<"Reading">> >>)
          [] f = "picture"   -> Str(<<"images", "/", "photo.png">>)
          [] f = "address"   -> Str(<<"1 Main Street">>)
          [] f = "state"     -> Str(<<"NCR">>)
          [] f = "city"      -> Str(<<"Delhi">>)]

\* ------------------------------------------------------ the tests' inputs
EmptyMap == [f \in Fields |-> Undef]

Lists(S) == UNION { [1..k -> S] : k \in 0..MaxList }

Falsy == {Undef, Null, Str(<<>>)}

\* The values a test gives a field: every falsy kind, and values of the
\* field's type.
Variants(f) ==
    CASE f = "dob"      -> Falsy \cup { DateV(d) : d \in Dates }
      [] f = "subjects" -> Falsy \cup { List(l) : l \in Lists(SubjectNames) }
      [] f = "hobbies"  -> Falsy \cup { List(l) : l \in Lists(HobbyNames) }
      [] OTHER          -> Falsy \cup { defaultValues[f] }

\* Fields varied together; the others keep the base map's values.
FieldGroups == { {"firstName", "lastName"}, {"state", "city"} }
               \cup { {f} : f \in Fields \ {"firstName", "lastName", "state", "city"} }

Choices(g) == { c \in [g -> UNION { Variants(f) : f \in g }] :
                  \A f \in g : c[f] \in Variants(f) }

Override(base, g, c) == [f \in Fields |-> IF f \in g THEN c[f] ELSE base[f]]

JaneDoe ==
    [f \in Fields |->
        CASE f = "firstName" -> Str(<<"Jane">>)
          [] f = "lastName"  -> Str(<<"Doe">>)
          [] f = "gender"    -> Str(<<"Female">>)
          [] f = "hobbies"   -> List(<< <<"Sports">> >>)
          [] OTHER           -> Undef]

FormInputs ==
    {JaneDoe} \cup
    UNION { { Override(base, g, c) : c \in Choices(g) } :
              base \in {EmptyMap, defaultValues}, g \in FieldGroups }

\* validateSubmission is also given a name part that is itself a list.
ExpectedInputs ==
    FormInputs \cup
    { Override(EmptyMap, {"firstName", "lastName"},
               [f \in {"firstName", "lastName"} |->
                   IF f = "firstName" THEN a ELSE List(<< <<"Y">>, <<"Z">> >>)]) :
        a \in {Undef, Str(<<"X">>)} }

\* ------------------------------------------------------ Cypress commands
\* A queued command: the operation that enqueued it, the command, the
\* control (or results-table label) it acts on, and its argument.
Cmd(op, cmd, field, arg) == [op |-> op, cmd |-> cmd, field |-> field, arg |-> arg]

NoCmd == Cmd("none", "none", "none", Undef)

AssertCmds == {"containTitle", "haveLength1", "contain", "empty"}

InteractCmds == {"visit", "type", "selectDate", "click", "attachFile"}

\* What a sequence of statements did before it returned or threw.
Done(cmds) == [cmds |-> cmds, threw |-> FALSE]

Threw(cmds) == [cmds |-> cmds, threw |-> TRUE]

Then(a, b) ==
    IF a.threw THEN a ELSE [cmds |-> a.cmds \o b.cmds, threw |-> b.threw]

\* visit(): cy.visit(url); cy.get(pageHeader).should('contain', pageTitle)
VisitCmds ==
    << Cmd("visit", "visit", "url", Str(<<"automation-practice-form">>)),
       Cmd("visit", "containTitle", "pageHeader", Str(<<"Practice Form">>)) >>

\* fieldTypes.text.forEach(field => cy.wrap(formValues[field]).then(...))
RECURSIVE TextCmds(_, _)
TextCmds(fv, i) ==
    IF i > Len(fieldTypes.text) THEN <<>>
    ELSE <<Cmd("fill", "then", fieldTypes.text[i], fv[fieldTypes.text[i]])>>
         \o TextCmds(fv, i + 1)

\* The callback of cy.wrap(value).then: if (value) cy.get(form[field]).type(value)
ThenCallback(c) ==
    IF Truthy(c.arg) THEN <<Cmd(c.op, "type", c.field, c.arg)>> ELSE <<>>

\* if (formValues.dob) cy.get(form.dob).selectDate(formValues.dob)
DobCmds(fv) ==
    IF Truthy(fv["dob"]) THEN <<Cmd("fill", "selectDate", "dob", fv["dob"])>> ELSE <<>>

selectGender(op, gender) ==
    IF ~Truthy(gender) THEN Done(<<>>)
    ELSE Done(<<Cmd(op, "click", "gender", gender)>>)

\* One subject: type it, assert a single suggestion, click the suggestion.
SubjectCycle(op, subject) ==
    << Cmd(op, "type", "subjects", Str(subject)),
       Cmd(op, "haveLength1", "subjectsDropDown", Str(subject)),
       Cmd(op, "click", "subjectsDropDown", Str(subject)) >>

\* Mutant: every subject is typed first, the suggestions are confirmed after.
SubjectCyclesBatched(op, l) ==
    [i \in 1..Len(l) |-> Cmd(op, "type", "subjects", Str(l[i]))]
    \o [k \in 1..(2 * Len(l)) |->
          IF k % 2 = 1
          THEN Cmd(op, "haveLength1", "subjectsDropDown", Str(l[(k + 1) \div 2]))
          ELSE Cmd(op, "click", "subjectsDropDown", Str(l[k \div 2]))]

RECURSIVE SubjectCycles(_, _)
SubjectCycles(op, l) ==
    IF l = <<>> THEN <<>>
    ELSE SubjectCycle(op, Head(l)) \o SubjectCycles(op, Tail(l))

\* The default parameter (subjects = []) replaces undefined only; a value
\* without forEach (null, a string) throws a TypeError.
selectSubjects(op, subjects) ==
    IF subjects.t = "undefined" THEN Done(<<>>)
    ELSE IF IsArray(subjects) THEN Done(SubjectCycles(op, subjects.l))
    ELSE Threw(<<>>)

RECURSIVE HobbyClicks(_, _)
HobbyClicks(op, l) ==
    IF l = <<>> THEN <<>>
    ELSE <<Cmd(op, "click", "hobbies", Str(Head(l)))>> \o HobbyClicks(op, Tail(l))

selectHobbies(op, hobbies) ==
    IF hobbies.t = "undefined" THEN Done(<<>>)
    ELSE IF IsArray(hobbies) THEN Done(HobbyClicks(op, hobbies.l))
    ELSE Threw(<<>>)

uploadPicture(op, file) ==
    IF ~Truthy(file) THEN Done(<<>>)
    ELSE Done(<<Cmd(op, "attachFile", "picture", file)>>)

\* state + '{enter}'
WithEnter(v) == Str(v.s \o <<"{enter}">>)

\* Mutant: the city is typed whether or not a state was given.
selectLocationUngated(op, state, city) ==
    Done((IF Truthy(state)
          THEN <<Cmd(op, "type", "state", WithEnter(state))>> ELSE <<>>)
         \o (IF Truthy(city)
             THEN <<Cmd(op, "type", "city", WithEnter(city))>> ELSE <<>>))

selectLocation(op, state, city) ==
    IF Truthy(state)
    THEN Done(<<Cmd(op, "type", "state", WithEnter(state))>>
              \o (IF Truthy(city)
                  THEN <<Cmd(op, "type", "city", WithEnter(city))>>
                  ELSE <<>>))
    ELSE Done(<<>>)

fill(fv) ==
    Then(Done(TextCmds(fv, 1) \o DobCmds(fv)),
    Then(selectGender("fill", fv["gender"]),
    Then(selectSubjects("fill", fv["subjects"]),
    Then(selectHobbies("fill", fv["hobbies"]),
    Then(uploadPicture("fill", fv["picture"]),
         selectLocation("fill", fv["state"], fv["city"]))))))

\* --------------------------------------------------- validateSubmission
Rec(label, expValue) == [label |-> label, expValue |-> expValue]

\* What validateSubmission has built so far: populatedFields, missingFields.
Built(p, m) == [p |-> p, m |-> m]

\* Mutant: a direct field without a value is not recorded as missing.
RECURSIVE DirectFieldsNoMissing(_, _, _)
DirectFieldsNoMissing(ev, i, acc) ==
    IF i > Len(submissionMapping.direct) THEN acc
    ELSE LET mapping == submissionMapping.direct[i] IN
         DirectFieldsNoMissing(ev, i + 1,
            IF Truthy(ev[mapping.selector])
            THEN Built(Append(acc.p, Rec(mapping.label, ev[mapping.selector])), acc.m)
            ELSE acc)

\* submissionMapping.direct.forEach
RECURSIVE DirectFields(_, _, _)
DirectFields(ev, i, acc) ==
    IF i > Len(submissionMapping.direct) THEN acc
    ELSE LET mapping == submissionMapping.direct[i] IN
         DirectFields(ev, i + 1,
            IF Truthy(ev[mapping.selector])
            THEN Built(Append(acc.p, Rec(mapping.label, ev[mapping.selector])), acc.m)
            ELSE Built(acc.p, Append(acc.m, mapping.label)))

\* Mutant: the delimiter is put before every part, the first one too.
AccumulateLeading(expValue, value, delim) ==
    IF value # <<>> THEN expValue \o delim \o value ELSE expValue

\* if (value) expValue += expValue.length === 0 ? value : mapping.delimeter + value
Accumulate(expValue, value, delim) ==
    IF value # <<>>
    THEN expValue \o (IF Len(expValue) = 0 THEN value ELSE delim \o value)
    ELSE expValue

\* mapping.selectors.forEach: a list is joined with the delimiter first.
RECURSIVE ConcatExpValue(_, _, _, _)
ConcatExpValue(mapping, ev, i, expValue) ==
    IF i > Len(mapping.selectors) THEN expValue
    ELSE LET rawvalue == ev[mapping.selectors[i]]
             value == IF IsArray(rawvalue)
                      THEN Join(rawvalue.l, mapping.delimeter)
                      ELSE rawvalue.s
         IN ConcatExpValue(mapping, ev, i + 1,
                           Accumulate(expValue, value, mapping.delimeter))

\* submissionMapping.concat.forEach
RECURSIVE ConcatFields(_, _, _)
ConcatFields(ev, i, acc) ==
    IF i > Len(submissionMapping.concat) THEN acc
    ELSE LET mapping == submissionMapping.concat[i]
             expValue == ConcatExpValue(mapping, ev, 1, <<>>)
         IN ConcatFields(ev, i + 1,
               IF expValue # <<>>
               THEN Built(Append(acc.p, Rec(mapping.label, Str(expValue))), acc.m)
               ELSE Built(acc.p, Append(acc.m, mapping.label)))

\* values.forEach(value => populatedFields.push(...))
RECURSIVE ListRecords(_, _)
ListRecords(label, l) ==
    IF l = <<>> THEN <<>>
    ELSE <<Rec(label, Str(Head(l)))>> \o ListRecords(label, Tail(l))

\* if (values) { values.forEach(...) } else { missingFields.push(label) }
ListMapping(mapping, values, acc) ==
    IF Truthy(values)
    THEN Built(acc.p \o ListRecords(mapping.label, values.l), acc.m)
    ELSE Built(acc.p, Append(acc.m, mapping.label))

\* submissionMapping.list.forEach
RECURSIVE ListFields(_, _, _)
ListFields(ev, i, acc) ==
    IF i > Len(submissionMapping.list) THEN acc
    ELSE LET mapping == submissionMapping.list[i] IN
         ListFields(ev, i + 1, ListMapping(mapping, ev[mapping.selector], acc))

\* A truthy value without forEach (a non-empty string, a date) throws.
ListThrows(ev) ==
    \E i \in 1..Len(submissionMapping.list) :
        LET values == ev[submissionMapping.list[i].selector] IN
        Truthy(values) /\ ~IsArray(values)

\* String.prototype.lastIndexOf('/'), counted from 1; 0 when there is none.
LastIndexOf(s, ch) ==
    IF \E i \in 1..Len(s) : s[i] = ch
    THEN CHOOSE i \in 1..Len(s) : s[i] = ch /\ \A j \in (i + 1)..Len(s) : s[j] # ch
    ELSE 0

\* picture.slice(picture.lastIndexOf('/') + 1)
Basename(s) == SubSeq(s, LastIndexOf(s, "/") + 1, Len(s))

PictureField(ev, acc) ==
    IF Truthy(ev["picture"])
    THEN Built(Append(acc.p, Rec(submissionMapping.picture,
                                 Str(Basename(ev["picture"].s)))), acc.m)
    ELSE Built(acc.p, Append(acc.m, submissionMapping.picture))

\* dayjs(value): undefined is now; a date is itself; null and '' give an
\* invalid date.
dayjs(value, now) ==
    IF value.t = "undefined" THEN now
    ELSE IF value.t = "date" THEN value.date
    ELSE NoDate

Digits == <<"0", "1", "2", "3", "4", "5", "6", "7", "8", "9">>

Digit(n) == Digits[n + 1]

MonthNames == <<"January", "February", "March", "April", "May", "June", "July",
                "August", "September", "October", "November", "December">>

\* .format('DD MMMM,YYYY'): the day on two digits, the month's name, the
\* year on four digits.
format(date) ==
    IF date = NoDate THEN <<"Invalid Date">>
    ELSE << Digit(date.d \div 10), Digit(date.d % 10), " ",
            MonthNames[date.m], ",",
            Digit(date.y \div 1000), Digit((date.y \div 100) % 10),
            Digit((date.y \div 10) % 10), Digit(date.y % 10) >>

\* Mutant: the date of birth is treated like the other fields, missing when
\* no value is given.
DobFieldIfGiven(ev, now, acc) ==
    IF Truthy(ev["dob"])
    THEN Built(Append(acc.p, Rec(submissionMapping.dob,
                                 Str(format(dayjs(ev["dob"], now))))), acc.m)
    ELSE Built(acc.p, Append(acc.m, submissionMapping.dob))

\* The date of birth is pushed whatever expectedValues.dob is.
DobField(ev, now, acc) ==
    Built(Append(acc.p, Rec(submissionMapping.dob, Str(format(dayjs(ev["dob"], now))))),
          acc.m)

BuildFields(ev, now) ==
    DobField(ev, now,
      PictureField(ev,
        ListFields(ev, 1,
          ConcatFields(ev, 1,
            DirectFields(ev, 1, Built(<<>>, <<>>))))))

\* populatedFields.forEach: table.getCell('Label', label, 'Values') contains expValue
RECURSIVE ContainCmds(_)
ContainCmds(p) ==
    IF p = <<>> THEN <<>>
    ELSE <<Cmd("validateSubmission", "contain", Head(p).label, Head(p).expValue)>>
         \o ContainCmds(Tail(p))

\* missingFields.forEach: the cell is empty
RECURSIVE EmptyCmds(_)
EmptyCmds(m) ==
    IF m = <<>> THEN <<>>
    ELSE <<Cmd("validateSubmission", "empty", Head(m), Undef)>> \o EmptyCmds(Tail(m))

\* ------------------------------------------------------------ the test
NoHelper == [name |-> "none", a |-> Undef, b |-> Undef]

Init ==
    /\ pc = "test"
    /\ stage = 0
    /\ queue = <<>>
    /\ log = <<>>
    /\ failure = NoCmd
    /\ formValues = EmptyMap
    /\ filled = FALSE
    /\ expectedValues = EmptyMap
    /\ validated = FALSE
    /\ populatedFields = <<>>
    /\ missingFields = <<>>
    /\ helperArgs = NoHelper
    /\ today = NoDate

\* The test body calls an operation: its commands are queued, and a throw
\* ends the test body.
Call(r) ==
    /\ queue' = queue \o r.cmds
    /\ pc' = IF r.threw THEN "threw" ELSE "test"

Visit ==
    /\ pc = "test" /\ stage = 0
    /\ Call(Done(VisitCmds))
    /\ stage' = 1
    /\ UNCHANGED <<log, failure, formValues, filled, expectedValues, validated,
                   populatedFields, missingFields, helperArgs, today>>

Fill(fv) ==
    /\ pc = "test" /\ stage <= 1
    /\ Call(fill(fv))
    /\ stage' = 2
    /\ formValues' = fv
    /\ filled' = TRUE
    /\ UNCHANGED <<log, failure, expectedValues, validated,
                   populatedFields, missingFields, helperArgs, today>>

\* A test calls one of the helpers on its own.
Helper(name, a, b, r) ==
    /\ pc = "test" /\ stage <= 1
    /\ Call(r)
    /\ stage' = 2
    /\ helperArgs' = [name |-> name, a |-> a, b |-> b]
    /\ UNCHANGED <<log, failure, formValues, filled, expectedValues, validated,
                   populatedFields, missingFields, today>>

SelectGender(gender) ==
    Helper("selectGender", gender, Undef, selectGender("selectGender", gender))

SelectSubjects(subjects) ==
    Helper("selectSubjects", subjects, Undef, selectSubjects("selectSubjects", subjects))

SelectHobbies(hobbies) ==
    Helper("selectHobbies", hobbies, Undef, selectHobbies("selectHobbies", hobbies))

UploadPicture(file) ==
    Helper("uploadPicture", file, Undef, uploadPicture("uploadPicture", file))

SelectLocation(state, city) ==
    Helper("selectLocation", state, city, selectLocation("selectLocation", state, city))

\* The test clicks the submit button after filling the form.
Submit ==
    /\ pc = "test" /\ stage = 2 /\ filled
    /\ Call(Done(<<Cmd("submit", "click", "submitButton", Undef)>>))
    /\ stage' = 3
    /\ UNCHANGED <<log, failure, formValues, filled, expectedValues, validated,
                   populatedFields, missingFields, helperArgs, today>>

\* validateSubmission(expectedValues), called at the date `now`; a test that
\* filled the form validates the values it filled.
ValidateSubmission(ev, now) ==
    /\ pc = "test"
    /\ \/ stage <= 1
       \/ stage = 3 /\ ev = formValues
    /\ stage' = 4
    /\ expectedValues' = ev
    /\ validated' = TRUE
    /\ today' = now
    /\ IF ListThrows(ev)
       THEN /\ Call(Threw(<<>>))
            /\ UNCHANGED <<populatedFields, missingFields>>
       ELSE LET built == BuildFields(ev, now) IN
            /\ populatedFields' = built.p
            /\ missingFields' = built.m
            /\ Call(Done(ContainCmds(built.p) \o EmptyCmds(built.m)))
    /\ UNCHANGED <<log, failure, formValues, filled, helperArgs>>

\* The test body returns: Cypress starts running the queue.
EndTest ==
    /\ pc = "test" /\ stage >= 1
    /\ pc' = "run"
    /\ UNCHANGED <<stage, queue, log, failure, formValues, filled, expectedValues,
                   validated, populatedFields, missingFields, helperArgs, today>>

\* ------------------------------------------------------- the Cypress runner
\* Mutant: commands a callback enqueues go to the end of the queue.
InsertNestedAtEnd(nested, rest) == rest \o nested

\* Commands a callback enqueues run before the rest of the queue.
InsertNested(nested, rest) == nested \o rest

\* Mutant: the failure is caught and the queue keeps running.
AfterFailureCaught == "run"

\* A failed assertion fails the test: nothing catches it.
AfterFailure == "failed"

RunInteract ==
    /\ pc = "run" /\ queue # <<>>
    /\ Head(queue).cmd \in InteractCmds
    /\ log' = Append(log, Head(queue))
    /\ queue' = Tail(queue)
    /\ UNCHANGED <<pc, stage, failure, formValues, filled, expectedValues, validated,
                   populatedFields, missingFields, helperArgs, today>>

RunThen ==
    /\ pc = "run" /\ queue # <<>>
    /\ Head(queue).cmd = "then"
    /\ queue' = InsertNested(ThenCallback(Head(queue)), Tail(queue))
    /\ UNCHANGED <<pc, stage, log, failure, formValues, filled, expectedValues,
                   validated, populatedFields, missingFields, helperArgs, today>>

RunAssertPass ==
    /\ pc = "run" /\ queue # <<>>
    /\ Head(queue).cmd \in AssertCmds
    /\ log' = Append(log, Head(queue))
    /\ queue' = Tail(queue)
    /\ UNCHANGED <<pc, stage, failure, formValues, filled, expectedValues, validated,
                   populatedFields, missingFields, helperArgs, today>>

\* The page does not show what the assertion expects.
RunAssertFail ==
    /\ pc = "run" /\ queue # <<>>
    /\ Head(queue).cmd \in AssertCmds
    /\ failure = NoCmd
    /\ failure' = Head(queue)
    /\ queue' = Tail(queue)
    /\ pc' = AfterFailure
    /\ UNCHANGED <<stage, log, formValues, filled, expectedValues, validated,
                   populatedFields, missingFields, helperArgs, today>>

Finish ==
    /\ pc = "run" /\ queue = <<>>
    /\ pc' = "done"
    /\ UNCHANGED <<stage, queue, log, failure, formValues, filled, expectedValues,
                   validated, populatedFields, missingFields, helperArgs, today>>

Next ==
    \/ Visit
    \/ \E fv \in FormInputs : Fill(fv)
    \/ \E gender \in Variants("gender") : SelectGender(gender)
    \/ \E subjects \in Variants("subjects") : SelectSubjects(subjects)
    \/ \E hobbies \in Variants("hobbies") : SelectHobbies(hobbies)
    \/ \E file \in Variants("picture") : UploadPicture(file)
    \/ \E state \in Variants("state"), city \in Variants("city") :
          SelectLocation(state, city)
    \/ Submit
    \/ \E ev \in ExpectedInputs, now \in Dates : ValidateSubmission(ev, now)
    \/ EndTest
    \/ RunInteract
    \/ RunThen
    \/ RunAssertPass
    \/ RunAssertFail
    \/ Finish

Spec == Init /\ [][Next]_vars

\* ------------------------------------------------------------ properties
\* The executed commands on the controls F, in execution order.
OnControls(F) == SelectSeq(log, LAMBDA c : c.field \in F)

Shape(c) == <<c.cmd, c.field, c.arg>>

Labels(p) == { p[i].label : i \in 1..Len(p) }

Range(q) == { q[i] : i \in 1..Len(q) }

\* The populated records of one label, in the order they were pushed.
RecordsOf(label) == SelectSeq(populatedFields, LAMBDA r : r.label = label)

\* The arguments of the test's call of selectLocation (by fill or directly).
LocationCalled == (filled /\ pc # "threw") \/ helperArgs.name = "selectLocation"

LocationState == IF filled THEN formValues["state"] ELSE helperArgs.a

LocationCity == IF filled THEN formValues["city"] ELSE helperArgs.b

TypedState == <<"type", "state", Str(LocationState.s \o <<"{enter}">>)>>

TypedCity == <<"type", "city", Str(LocationCity.s \o <<"{enter}">>)>>

\* C2: selectLocation never types into the city field unless it typed into
\* the state field before: with a falsy state it interacts with neither
\* field whatever the city is, with a state and a falsy city it types the
\* state only, and with both it types the state and then the city; a call
\* whose commands all ran has typed all of them.
C2_StateBeforeCity ==
    LET loc == OnControls({"state", "city"})
        shapes == [i \in 1..Len(loc) |-> Shape(loc[i])]
        all == IF ~Truthy(LocationState) THEN <<>>
               ELSE IF ~Truthy(LocationCity) THEN <<TypedState>>
               ELSE <<TypedState, TypedCity>>
    IN /\ ~LocationCalled => loc = <<>>
       /\ LocationCalled =>
            /\ Len(shapes) <= Len(all)
            /\ shapes = SubSeq(all, 1, Len(shapes))
            /\ pc = "done" => shapes = all

C2_Witness ==
    /\ pc = "done"
    /\ helperArgs.name = "selectLocation"
    /\ Truthy(helperArgs.a) /\ Truthy(helperArgs.b)
    /\ Len(OnControls({"state", "city"})) = 2
    /\ OnControls({"state", "city"})[1].field = "state"

\* The list of subjects the test's call of selectSubjects was given.
SubjectsCalled ==
    \/ filled /\ pc # "threw"
    \/ helperArgs.name = "selectSubjects" /\ pc # "threw"

SubjectsGiven ==
    LET v == IF filled THEN formValues["subjects"] ELSE helperArgs.a
    IN IF IsArray(v) THEN v.l ELSE <<>>

\* The k-th command of the cycles of the subjects l: subject (k-1) \div 3 + 1
\* is typed, then its single suggestion is asserted, then clicked.
CycleStep(l, k) ==
    LET subject == Str(l[((k - 1) \div 3) + 1])
        j == (k - 1) % 3
    IN IF j = 0 THEN <<"type", "subjects", subject>>
       ELSE IF j = 1 THEN <<"haveLength1", "subjectsDropDown", subject>>
       ELSE <<"click", "subjectsDropDown", subject>>

\* C6: selectSubjects performs the type+confirm cycles of its n subjects in
\* list order, strictly alternating: what has run so far is always a prefix
\* of type 1, assert 1, click 1, type 2, assert 2, click 2, ..., and a call
\* whose commands all ran has performed exactly n cycles.
C6_SubjectCycles ==
    LET subj == OnControls({"subjects", "subjectsDropDown"})
        n == Len(SubjectsGiven)
    IN /\ ~SubjectsCalled => subj = <<>>
       /\ SubjectsCalled =>
            /\ Len(subj) <= 3 * n
            /\ \A k \in 1..Len(subj) : Shape(subj[k]) = CycleStep(SubjectsGiven, k)
            /\ pc = "done" => Len(subj) = 3 * n

C6_Witness ==
    /\ pc = "done"
    /\ helperArgs.name = "selectSubjects"
    /\ IsArray(helperArgs.a) /\ Len(helperArgs.a.l) = 2
    /\ helperArgs.a.l[1] # helperArgs.a.l[2]
    /\ Len(OnControls({"subjects", "subjectsDropDown"})) = 6

\* C7: an assertion failure is fatal: once an assertion has failed, no queued
\* command is executed any more (the failed dropdown is not clicked, no
\* further subject is typed) and the failure stays.
C7_FailureIsFatal ==
    [][failure # NoCmd => (log' = log /\ queue' = queue /\ failure' = failure)]_vars

C7_Witness ==
    /\ pc = "failed"
    /\ failure.cmd = "haveLength1"
    /\ queue # <<>>
    /\ Head(queue).cmd = "click" /\ Head(queue).field = "subjectsDropDown"
    /\ \E i \in 1..Len(queue) : queue[i].cmd = "type" /\ queue[i].field = "subjects"

\* The place of a control in fill: the text fields in the fixture's list
\* order, then the date of birth, gender, subjects, hobbies, picture, state
\* and city.
FillRank(field) ==
    IF \E i \in 1..Len(fieldTypes.text) : fieldTypes.text[i] = field
    THEN CHOOSE i \in 1..Len(fieldTypes.text) : fieldTypes.text[i] = field
    ELSE Len(fieldTypes.text) +
         (CASE field = "dob" -> 1
            [] field = "gender" -> 2
            [] field \in {"subjects", "subjectsDropDown"} -> 3
            [] field = "hobbies" -> 4
            [] field = "picture" -> 5
            [] field = "state" -> 6
            [] field = "city" -> 7)

\* C9: the interactions fill enqueues execute in one fixed order: no
\* interaction is executed after an interaction of a later control, and each
\* text field is typed at most once, so no deferred text-field typing runs
\* after a date-of-birth, gender, subject, hobby, picture or location
\* interaction.
C9_FillOrder ==
    LET f == SelectSeq(log, LAMBDA c : c.op = "fill") IN
    \A i, j \in 1..Len(f) :
        i < j =>
           /\ FillRank(f[i].field) <= FillRank(f[j].field)
           /\ FillRank(f[j].field) <= Len(fieldTypes.text)
                 => FillRank(f[i].field) < FillRank(f[j].field)

C9_Witness ==
    /\ pc = "done"
    /\ filled /\ formValues = defaultValues
    /\ { c.field : c \in Range(SelectSeq(log, LAMBDA c : c.op = "fill")) }
         = (Fields \cup {"subjectsDropDown"})

\* validateSubmission has built its two lists.
Classified == validated /\ pc # "threw"

\* C1: for every list-expansion mapping, a non-empty list gives exactly one
\* populated record per element, in order, and every other value (absent,
\* falsy or an empty list) records the label as missing.
C1_ListExpansion ==
    Classified =>
      \A i \in 1..Len(submissionMapping.list) :
        LET mapping == submissionMapping.list[i]
            values == expectedValues[mapping.selector]
            recs == RecordsOf(mapping.label)
        IN IF IsArray(values) /\ values.l # <<>>
           THEN /\ Len(recs) = Len(values.l)
                /\ \A k \in 1..Len(recs) : recs[k].expValue = Str(values.l[k])
                /\ mapping.label \notin Range(missingFields)
           ELSE /\ recs = <<>>
                /\ mapping.label \in Range(missingFields)

\* The part one selector contributes: a list joined with the delimiter, a
\* string as it is, nothing for an absent or falsy value.
PartOf(value, delim) ==
    IF IsArray(value) THEN Join(value.l, delim)
    ELSE IF value.t = "string" THEN value.s
    ELSE <<>>

\* C4: for every concatenated mapping the accumulated string is the non-empty
\* parts of its selectors joined by the delimiter in selector order (X and the
\* list Y, Z with a blank give X Y Z); the label is populated with that string,
\* once, when it is non-empty and is missing, not populated, when every
\* selector's part is empty.
C4_Concatenation ==
    Classified =>
      /\ \A i \in 1..Len(submissionMapping.concat) :
           LET mapping == submissionMapping.concat[i]
               parts == [k \in 1..Len(mapping.selectors) |->
                           PartOf(expectedValues[mapping.selectors[k]],
                                  mapping.delimeter)]
               expected == Join(SelectSeq(parts, LAMBDA x : x # <<>>),
                                mapping.delimeter)
               recs == RecordsOf(mapping.label)
           IN IF expected # <<>>
              THEN /\ recs = <<Rec(mapping.label, Str(expected))>>
                   /\ mapping.label \notin Range(missingFields)
              ELSE /\ recs = <<>>
                   /\ mapping.label \in Range(missingFields)
      /\ ( /\ expectedValues["firstName"] = Str(<<"X">>)
           /\ expectedValues["lastName"] = List(<< <<"Y">>, <<"Z">> >>) )
         => RecordsOf("Student Name")
              = <<Rec("Student Name", Str(<<"X", " ", "Y", " ", "Z">>))>>

C4_Witness ==
    /\ Classified
    /\ expectedValues["firstName"] = Str(<<"X">>)
    /\ expectedValues["lastName"] = List(<< <<"Y">>, <<"Z">> >>)
    /\ Rec("Student Name", Str(<<"X", " ", "Y", " ", "Z">>)) \in Range(populatedFields)
    /\ "Subjects" \in Range(missingFields)

\* The dates of the tests, as the results table shows them.
Displayed(date) ==
    CASE date = [y |-> 1990, m |-> 5, d |-> 7] ->
           <<"0", "7", " ", "May", ",", "1", "9", "9", "0">>
      [] date = [y |-> 2024, m |-> 12, d |-> 25] ->
           <<"2", "5", " ", "December", ",", "2", "0", "2", "4">>

JaneDoeValidated ==
    /\ Classified
    /\ filled /\ formValues = JaneDoe
    /\ expectedValues = JaneDoe

\* The four listed fields are populated with the values given.
JaneDoePopulated ==
    /\ RecordsOf("Student Name") = <<Rec("Student Name", Str(<<"Jane", " ", "Doe">>))>>
    /\ RecordsOf("Gender") = <<Rec("Gender", Str(<<"Female">>))>>
    /\ RecordsOf("Hobbies") = <<Rec("Hobbies", Str(<<"Sports">>))>>

\* The labels of the fields the map does not list.
UnlistedLabels ==
    {"Student Email", "Mobile", "Address", "Subjects", "State and City",
     "Picture", "Date of Birth"}

\* C8 as stated: in the end-to-end scenario the four listed fields are
\* populated with matching values and every field not listed is missing.
C8_AllUnlistedMissing ==
    JaneDoeValidated =>
      /\ JaneDoePopulated
      /\ \A label \in UnlistedLabels :
            /\ label \in Range(missingFields)
            /\ label \notin Labels(populatedFields)

\* C8, amended: in the end-to-end scenario the four listed fields are
\* populated with matching values, every field not listed other than the
\* date of birth is missing, and the date of birth is populated with the
\* current date.
C8_UnlistedMissingButDob ==
    JaneDoeValidated =>
      /\ JaneDoePopulated
      /\ \A label \in UnlistedLabels \ {"Date of Birth"} :
            /\ label \in Range(missingFields)
            /\ label \notin Labels(populatedFields)
      /\ RecordsOf("Date of Birth") = <<Rec("Date of Birth", Str(Displayed(today)))>>
      /\ "Date of Birth" \notin Range(missingFields)
      /\ Labels(populatedFields) = {"Student Name", "Gender", "Hobbies", "Date of Birth"}

C8_Witness ==
    /\ pc = "done"
    /\ JaneDoeValidated
    /\ \E i \in 1..Len(log) : log[i].op = "submit"
    /\ Len(SelectSeq(log, LAMBDA c : c.op = "validateSubmission"))
         = Len(populatedFields) + Len(missingFields)

\* Every label of the submission mapping.
AllLabels ==
    { submissionMapping.direct[i].label : i \in 1..Len(submissionMapping.direct) }
    \cup { submissionMapping.concat[i].label : i \in 1..Len(submissionMapping.concat) }
    \cup { submissionMapping.list[i].label : i \in 1..Len(submissionMapping.list) }
    \cup { submissionMapping.picture, submissionMapping.dob }

\* C10: validateSubmission classifies every label of the submission mapping
\* as populated or as missing, never both and never neither.
C10_EveryLabelClassified ==
    Classified =>
      \A label \in AllLabels :
        (label \in Labels(populatedFields)) # (label \in Range(missingFields))

\* The controls of an optional field of the form.
ControlsOf(f) ==
    IF f = "subjects" THEN {"subjects", "subjectsDropDown"} ELSE {f}

\* undefined, null, the empty string, the empty list.
FalsyOrEmpty(v) == ~Truthy(v) \/ (IsArray(v) /\ v.l = <<>>)

\* C3: once the test of a fill is over, no optional field whose value is
\* falsy or absent has been interacted with, and every field whose value is
\* present has been (the city, when the state is present too).
C3_FalsySkippedOthersFilled ==
    (filled /\ pc \in {"done", "threw"}) =>
      /\ \A f \in {"gender", "picture", "state", "city", "subjects", "hobbies", "dob"} :
            FalsyOrEmpty(formValues[f]) => OnControls(ControlsOf(f)) = <<>>
      /\ \A f \in Fields \ {"city"} :
            ~FalsyOrEmpty(formValues[f]) => OnControls(ControlsOf(f)) # <<>>
      /\ (~FalsyOrEmpty(formValues["state"]) /\ ~FalsyOrEmpty(formValues["city"]))
            => OnControls({"city"}) # <<>>

====
